---- MODULE Spec2Model ----
(***************************************************************************)
(* Model of the table_extractor package: TableExtractor.analyze() merging  *)
(* the tables referenced by a batch of SQL statements into a registry, and *)
(* SqlValidator validating every extracted table against the database and *)
(* the table catalog.                                                      *)
(*                                                                         *)
(* A SQL text is modelled after normalisation and splitting on ";": a      *)
(* sequence of statements.  A statement is the set of table references it  *)
(* contains; a reference is the keyword that introduces it together with   *)
(* the identifiers captured by the regular expression of that keyword.     *)
(* A fully qualified name "SCHEMA.NAME" is the pair <<SCHEMA, NAME>>.      *)
(***************************************************************************)
EXTENDS Integers, Sequences, FiniteSets, TLC

VARIABLES
    sql,               \* TableExtractor.sql: the text, a sequence of statements
    _sql_statements,   \* TableExtractor._sql_statements
    _table_cash,       \* TableExtractor._table_cash: dict full_name -> Table
    tables,            \* TableExtractor.tables: list of Table
    pc,                \* position of analyze(): "new", "loop", "analyzed"
    i,                 \* index of the statement the loop of analyze() is at
    calls,             \* number of analyze() calls started
    table_catalog,     \* SqlValidator.table_catalog
    table_validations, \* SqlValidator.table_validations: list of TableValidation
    v_table_cash,      \* SqlValidator._table_cash: dict full_name -> TableValidation
    vpc,               \* position of SqlValidator.__post_init__ ("none": no validator)
    j,                 \* index of the record the loop of _check_table_content is at
    queries,           \* the queries sent to the database connection, in order
    raised,            \* the exception that left the running method, or "None"
    patches            \* number of statements a caller has run on the built validator

extractor_vars == <<sql, _sql_statements, _table_cash, tables, pc, i, calls>>

validator_vars ==
    <<table_catalog, table_validations, v_table_cash, vpc, j, queries, raised>>

vars == <<extractor_vars, validator_vars, patches>>

----------------------------------------------------------------------------
(* Bounds of the model *)

\* statements in one SQL text
MaxStatements == 2
\* table references in one SQL text
MaxRefs == 2
\* analyze() calls on one extractor
MaxAnalyze == 2
\* statements in a SQL text given to SqlValidator
MaxValidatedStatements == 1
\* table references in a SQL text given to SqlValidator
MaxValidatedRefs == 1
\* statements a caller runs on a built SqlValidator
MaxPatches == 2
\* tokens in a SQL text given as written
MaxTokens == 4
\* tokens in a SQL text with calls of trim and extract
MaxCallTokens == 5

----------------------------------------------------------------------------
(* SQL texts *)

\* identifiers as written in the text
RawSchemas == {"s"}
RawNames == {"a", "B"}

\* keywords whose regular expression captures schema and name
TwoPartKeywords ==
    {"from", "join", "create table", "create hadoop table", "into table", "insert into"}

References ==
    [kw : TwoPartKeywords, schema : RawSchemas, name : RawNames, to : {""}]
    \cup [kw : {"rename table"}, schema : RawSchemas, name : RawNames, to : RawNames]

RECURSIVE SubsetsUpTo(_, _)
SubsetsUpTo(S, n) ==
    IF n = 0 \/ S = {} THEN {{}}
    ELSE LET x == CHOOSE y \in S : TRUE
             rest == S \ {x}
         IN  SubsetsUpTo(rest, n) \cup {t \cup {x} : t \in SubsetsUpTo(rest, n - 1)}

\* texts of n statements holding at most r references
RECURSIVE TextsWith(_, _)
TextsWith(n, r) ==
    IF n = 0 THEN {<<>>}
    ELSE UNION {{<<s>> \o t : t \in TextsWith(n - 1, r - Cardinality(s))} :
                    s \in SubsetsUpTo(References, r)}

\* str.split(";") returns at least one statement
Texts == UNION {TextsWith(n, MaxRefs) : n \in 1..MaxStatements}

ValidatedTexts ==
    UNION {TextsWith(n, MaxValidatedRefs) : n \in 1..MaxValidatedStatements}

----------------------------------------------------------------------------
(* Table *)

NoSql == {}

Table(schema, name) ==
    [schema |-> schema, name |-> name, sql |-> NoSql, used |-> FALSE,
     created |-> FALSE, renamed |-> FALSE, populated |-> FALSE]

full_name(t) == <<t.schema, t.name>>

\* str.split(".") of a full name
split(fn) == fn

----------------------------------------------------------------------------
(* dict, in insertion order *)

HasKey(d, k) == \E n \in DOMAIN d : d[n].key = k

IndexOf(d, k) == CHOOSE n \in DOMAIN d : d[n].key = k

Get(d, k) == d[IndexOf(d, k)].val

Put(d, k, v) ==
    IF HasKey(d, k) THEN [d EXCEPT ![IndexOf(d, k)].val = v]
    ELSE Append(d, [key |-> k, val |-> v])

Values(d) == [n \in DOMAIN d |-> d[n].val]

Keys(d) == [n \in DOMAIN d |-> d[n].key]

Range(f) == {f[n] : n \in DOMAIN f}

\* the orders in which a set can be iterated
Orders(S) ==
    {o \in [1..Cardinality(S) -> S] : \A m, n \in DOMAIN o : m # n => o[m] # o[n]}

----------------------------------------------------------------------------
(* the four scans of a statement *)

\* upper that keeps the identifiers as they are written
AsWritten(x) == x

upper(x) ==
    CASE x = "s" -> "S"
      [] x = "a" -> "A"
      [] x = "b" -> "B"
      [] OTHER -> x

\* a keyword as the patterns, compiled with re.IGNORECASE, read it
IgnoreCase(kw) ==
    CASE kw = "FROM" -> "from"
      [] kw = "INSERT INTO" -> "insert into"
      [] kw = "RENAME TABLE" -> "rename table"
      [] OTHER -> kw

Matches(statement, kws) == {r \in statement : IgnoreCase(r.kw) \in kws}

\* a token of a text as written: the match of a pattern (keyword, schema,
\* name), or a piece of text that no pattern matches as a whole
Token(kw, schema, name) == [kw |-> kw, schema |-> schema, name |-> name, to |-> ""]

\* a piece of text as a statement: the set of its tokens, each at its position
AsStatement(tokens) ==
    {[at |-> n, kw |-> tokens[n].kw, schema |-> tokens[n].schema,
      name |-> tokens[n].name, to |-> tokens[n].to] : n \in DOMAIN tokens}

\* the tokens of a statement, in the order of their positions
TokensOf(statement) ==
    [n \in 1..Cardinality(statement) |-> CHOOSE token \in statement : token.at = n]

\* the keywords whose text holds the word "from"
HoldsFrom(token) == IgnoreCase(token.kw) = "from"

\* re.sub(call + "\s*\([^)]*from[^)]*\)", "x", sql): from the left, a call is
\* replaced up to the first ")" after it when a "from" stands in between
RECURSIVE MaskCall(_, _)
MaskCall(text, call) ==
    IF text = <<>> THEN <<>>
    ELSE IF /\ Head(text).kw = call
            /\ \E q \in 2..Len(text) :
                    /\ text[q].kw = ")"
                    /\ \A n \in 2..(q - 1) : text[n].kw # ")"
                    /\ \E n \in 2..(q - 1) : HoldsFrom(text[n])
         THEN LET q == CHOOSE m \in 2..Len(text) :
                         /\ text[m].kw = ")"
                         /\ \A n \in 2..(m - 1) : text[n].kw # ")"
              IN  <<Token("x", "", "")>> \o MaskCall(SubSeq(text, q + 1, Len(text)), call)
         ELSE <<Head(text)>> \o MaskCall(Tail(text), call)

\* the statement after the two substitutions, which leave a statement
\* without a call as it is
Masked(statement) ==
    IF \E r \in statement : r.kw \in {"trim(", "extract("}
    THEN AsStatement(MaskCall(MaskCall(TokensOf(statement), "trim("), "extract("))
    ELSE statement

_identify_source_tables(statement) ==
    {<<upper(r.schema), upper(r.name)>> :
        r \in Matches(Masked(statement), {"from", "join"})}

_identify_target_tables(statement) ==
    {<<upper(r.schema), upper(r.name)>> :
        r \in Matches(statement, {"create table", "create hadoop table"})}

_identify_renamed_tables(statement) ==
    {<<(<<upper(r.schema), upper(r.name)>>), (<<upper(r.schema), upper(r.to)>>)>> :
        r \in Matches(statement, {"rename table"})}

\* _identify_populated_tables with a pattern that also takes the table of a join
IdentifyPopulatedOrJoined(statement) ==
    {<<upper(r.schema), upper(r.name)>> :
        r \in Matches(statement, {"into table", "insert into", "join"})}

_identify_populated_tables(statement) ==
    {<<upper(r.schema), upper(r.name)>> :
        r \in Matches(statement, {"into table", "insert into"})}

----------------------------------------------------------------------------
(* the merge of one statement into the registry *)

\* SourceStep with schema and name taken from the wrong parts of the key
SourceStepSwapped(cash, st) ==
    IF HasKey(cash, st) THEN Put(cash, st, [Get(cash, st) EXCEPT !.used = TRUE])
    ELSE Put(cash, st, [Table(split(st)[2], split(st)[1]) EXCEPT !.used = TRUE])

\* SourceStep that stores a new Table whether or not the key is present
SourceStepFresh(cash, st) ==
    Put(cash, st, [Table(split(st)[1], split(st)[2]) EXCEPT !.used = TRUE])

SourceStep(cash, st) ==
    IF HasKey(cash, st) THEN Put(cash, st, [Get(cash, st) EXCEPT !.used = TRUE])
    ELSE Put(cash, st, [Table(split(st)[1], split(st)[2]) EXCEPT !.used = TRUE])

TargetStep(cash, tt, statement) ==
    LET c1 == IF ~HasKey(cash, tt) THEN Put(cash, tt, Table(split(tt)[1], split(tt)[2]))
              ELSE cash
    IN  Put(c1, tt, [Get(c1, tt) EXCEPT !.created = TRUE, !.sql = statement])

\* RenameStep that also marks a renamed table it finds in the registry as used
RenameStepMarksExisting(cash, rt, statement) ==
    LET original_table == rt[1]
        renamed_table == rt[2]
        c1 == IF ~HasKey(cash, original_table)
              THEN Put(cash, original_table,
                       Table(split(original_table)[1], split(original_table)[2]))
              ELSE cash
        c2 == Put(c1, original_table, [Get(c1, original_table) EXCEPT !.used = TRUE])
        c3 == IF ~HasKey(c2, renamed_table)
              THEN Put(c2, renamed_table,
                       Table(split(renamed_table)[1], split(renamed_table)[2]))
              ELSE Put(c2, renamed_table, [Get(c2, renamed_table) EXCEPT !.used = TRUE])
    IN  Put(c3, renamed_table,
            [Get(c3, renamed_table) EXCEPT !.renamed = TRUE, !.sql = statement])

RenameStep(cash, rt, statement) ==
    LET original_table == rt[1]
        renamed_table == rt[2]
        c1 == IF ~HasKey(cash, original_table)
              THEN Put(cash, original_table,
                       Table(split(original_table)[1], split(original_table)[2]))
              ELSE cash
        c2 == Put(c1, original_table, [Get(c1, original_table) EXCEPT !.used = TRUE])
        c3 == IF ~HasKey(c2, renamed_table)
              THEN Put(c2, renamed_table,
                       Table(split(renamed_table)[1], split(renamed_table)[2]))
              ELSE c2
    IN  Put(c3, renamed_table,
            [Get(c3, renamed_table) EXCEPT !.renamed = TRUE, !.sql = statement])

\* PopulatedStep that keeps the sql a table already has
PopulatedStepKeepsSql(cash, pt, statement) ==
    IF HasKey(cash, pt)
    THEN Put(cash, pt, [Get(cash, pt) EXCEPT
            !.populated = TRUE,
            !.sql = IF Get(cash, pt).sql = NoSql THEN statement ELSE Get(cash, pt).sql])
    ELSE Put(cash, pt,
             [Table(split(pt)[1], split(pt)[2]) EXCEPT !.populated = TRUE, !.sql = statement])

PopulatedStep(cash, pt, statement) ==
    LET c1 == IF HasKey(cash, pt)
              THEN Put(cash, pt, [Get(cash, pt) EXCEPT !.populated = TRUE])
              ELSE Put(cash, pt,
                       [Table(split(pt)[1], split(pt)[2]) EXCEPT !.populated = TRUE])
    IN  Put(c1, pt, [Get(c1, pt) EXCEPT !.sql = statement])

RECURSIVE SourceLoop(_, _)
SourceLoop(cash, order) ==
    IF order = <<>> THEN cash
    ELSE SourceLoop(SourceStep(cash, Head(order)), Tail(order))

RECURSIVE TargetLoop(_, _, _)
TargetLoop(cash, order, statement) ==
    IF order = <<>> THEN cash
    ELSE TargetLoop(TargetStep(cash, Head(order), statement), Tail(order), statement)

RECURSIVE RenameLoop(_, _, _)
RenameLoop(cash, order, statement) ==
    IF order = <<>> THEN cash
    ELSE RenameLoop(RenameStep(cash, Head(order), statement), Tail(order), statement)

RECURSIVE PopulatedLoop(_, _, _)
PopulatedLoop(cash, order, statement) ==
    IF order = <<>> THEN cash
    ELSE PopulatedLoop(PopulatedStep(cash, Head(order), statement), Tail(order), statement)

\* the registries one iteration of the loop of analyze() can produce: the
\* scans return sets, whose iteration order is not fixed
MergeStatement(cash, statement) ==
    {PopulatedLoop(
        RenameLoop(
            TargetLoop(SourceLoop(cash, so), to, statement),
            ro, statement),
        po, statement) :
        <<so, to, ro, po>> \in
            Orders(_identify_source_tables(statement))
            \X Orders(_identify_target_tables(statement))
            \X Orders(_identify_renamed_tables(statement))
            \X Orders(_identify_populated_tables(statement))}

\* the registries analyze() can leave when it starts with the registry cash
\* and goes through the statements from position n on
RECURSIVE AnalyzeFrom(_, _, _)
AnalyzeFrom(cash, statements, n) ==
    IF n > Len(statements) THEN {cash}
    ELSE UNION {AnalyzeFrom(c, statements, n + 1) :
                    c \in MergeStatement(cash, statements[n])}

\* the update of the tables list that ends an iteration
TablesOf(cash) == Values(cash)

----------------------------------------------------------------------------
(* TableExtractor *)

NoValidator ==
    /\ table_catalog = <<>>
    /\ table_validations = <<>>
    /\ v_table_cash = <<>>
    /\ vpc = "none"
    /\ j = 0
    /\ queries = <<>>
    /\ raised = "None"
    /\ patches = 0

NewExtractor ==
    /\ _sql_statements = <<>>
    /\ _table_cash = <<>>
    /\ tables = <<>>
    /\ pc = "new"
    /\ i = 0
    /\ calls = 0

\* te = TableExtractor(sql)
Init ==
    /\ sql \in Texts
    /\ NewExtractor
    /\ NoValidator

\* analyze(), up to the loop over the statements
AnalyzeStart ==
    /\ vpc = "none"
    /\ pc \in {"new", "analyzed"}
    /\ calls < MaxAnalyze
    /\ _sql_statements' = sql
    /\ i' = 1
    /\ pc' = "loop"
    /\ calls' = calls + 1
    /\ UNCHANGED <<sql, _table_cash, tables>>
    /\ UNCHANGED <<validator_vars, patches>>

\* one iteration of the loop of analyze()
AnalyzeStatement ==
    /\ pc = "loop"
    /\ i <= Len(_sql_statements)
    /\ _table_cash' \in MergeStatement(_table_cash, _sql_statements[i])
    /\ tables' = TablesOf(_table_cash')
    /\ i' = i + 1
    /\ pc' = IF i = Len(_sql_statements) THEN "analyzed" ELSE "loop"
    /\ UNCHANGED <<sql, _sql_statements, calls>>
    /\ UNCHANGED <<validator_vars, patches>>

Next == AnalyzeStart \/ AnalyzeStatement

Spec == Init /\ [][Next]_vars

\* references written in lower case and in upper case
CaseReferences ==
    [kw : {"from", "FROM", "insert into", "INSERT INTO"}, schema : {"s", "S"},
     name : {"a", "A"}, to : {""}]
    \cup [kw : {"rename table", "RENAME TABLE"}, schema : {"s", "S"},
          name : {"a", "A"}, to : {"b", "B"}]

\* texts of one statement
CaseTexts == {<<statement>> : statement \in SubsetsUpTo(CaseReferences, MaxRefs)}

\* te = TableExtractor(sql), for a text in mixed case
InitCase ==
    /\ sql \in CaseTexts
    /\ NewExtractor
    /\ NoValidator

SpecCase == InitCase /\ [][Next]_vars

----------------------------------------------------------------------------
(* SQL texts as written: sequences of tokens, cleaned and split by analyze() *)

TextTokens ==
    {Token("create table", "s", "a"), Token("insert into", "s", "a"),
     Token("from", "s", "a"), Token(" ", "", ""), Token("\n", "", ""),
     Token(";", "", ""), Token("--", "", "")}

\* the match of a pattern
IsReference(token) == token.name # ""

\* the texts of the model: a match is not directly followed by another match,
\* which in a text as written would continue its name
RawTexts ==
    {text \in UNION {[1..n -> TextTokens] : n \in 0..MaxTokens} :
        \A n \in 1..(Len(text) - 1) : ~(IsReference(text[n]) /\ IsReference(text[n + 1]))}

\* str.isspace()
IsWhitespace(token) == token.kw \in {" ", "\n"}

\* str.split(sep)
RECURSIVE SplitBy(_, _)
SplitBy(text, sep) ==
    IF \E k \in DOMAIN text : text[k].kw = sep
    THEN LET k == CHOOSE m \in DOMAIN text :
                    /\ text[m].kw = sep
                    /\ \A n \in 1..(m - 1) : text[n].kw # sep
         IN  <<SubSeq(text, 1, k - 1)>> \o SplitBy(SubSeq(text, k + 1, Len(text)), sep)
    ELSE <<text>>

\* sep.join(lines)
RECURSIVE JoinWith(_, _)
JoinWith(lines, sep) ==
    IF Len(lines) = 1 THEN lines[1]
    ELSE lines[1] \o <<Token(sep, "", "")>> \o JoinWith(Tail(lines), sep)

\* re.sub("(--.*$)", "", line)
RECURSIVE WithoutComment(_)
WithoutComment(line) ==
    IF line = <<>> \/ Head(line).kw = "--" THEN <<>>
    ELSE <<Head(line)>> \o WithoutComment(Tail(line))

\* the tokens that hold a star or a slash
HoldsStarOrSlash(token) == token.kw \in {"/*", "*/", "*"}

\* re.sub(r"/\*[^*/]*\*/", "", sql): from the left, a "/*" is removed up to
\* the next token with a star or a slash when that token is "*/"
RECURSIVE WithoutBlocks(_)
WithoutBlocks(text) ==
    IF text = <<>> THEN <<>>
    ELSE IF /\ Head(text).kw = "/*"
            /\ \E q \in 2..Len(text) :
                    /\ text[q].kw = "*/"
                    /\ \A n \in 2..(q - 1) : ~HoldsStarOrSlash(text[n])
         THEN LET q == CHOOSE m \in 2..Len(text) :
                         /\ text[m].kw = "*/"
                         /\ \A n \in 2..(m - 1) : ~HoldsStarOrSlash(text[n])
              IN  WithoutBlocks(SubSeq(text, q + 1, Len(text)))
         ELSE <<Head(text)>> \o WithoutBlocks(Tail(text))

_remove_comments(text) ==
    LET lines == SplitBy(text, "\n")
    IN  WithoutBlocks(JoinWith([n \in DOMAIN lines |-> WithoutComment(lines[n])], "\n"))

\* the patterns are not compiled with re.MULTILINE: they match only a text that
\* is whitespace from its start to a line break at its end
_remove_blank_lines(text) ==
    IF /\ text # <<>>
       /\ \A n \in DOMAIN text : IsWhitespace(text[n])
       /\ text[Len(text)].kw = "\n"
    THEN <<>>
    ELSE text

RECURSIVE lstrip(_)
lstrip(line) ==
    IF line # <<>> /\ IsWhitespace(Head(line)) THEN lstrip(Tail(line)) ELSE line

RECURSIVE rstrip(_)
rstrip(line) ==
    IF line # <<>> /\ IsWhitespace(line[Len(line)])
    THEN rstrip(SubSeq(line, 1, Len(line) - 1))
    ELSE line

\* str.strip()
strip(line) == rstrip(lstrip(line))

_trim_lines(text) ==
    LET lines == SplitBy(text, "\n")
    IN  JoinWith([n \in DOMAIN lines |-> strip(lines[n])], "\n")

\* te = TableExtractor(sql), for a text as written
InitText ==
    /\ sql \in RawTexts
    /\ NewExtractor
    /\ NoValidator

\* analyze(), up to the loop over the statements: the text is cleaned and split
AnalyzeText ==
    /\ vpc = "none"
    /\ pc \in {"new", "analyzed"}
    /\ calls < MaxAnalyze
    /\ LET sql_clean == _trim_lines(_remove_blank_lines(_remove_comments(sql)))
           statements == SplitBy(sql_clean, ";")
       IN  _sql_statements' = [n \in DOMAIN statements |-> AsStatement(statements[n])]
    /\ i' = 1
    /\ pc' = "loop"
    /\ calls' = calls + 1
    /\ UNCHANGED <<sql, _table_cash, tables>>
    /\ UNCHANGED <<validator_vars, patches>>

NextText == AnalyzeText \/ AnalyzeStatement

SpecText == InitText /\ [][NextText]_vars

\* the tokens of a text with comments: the start and the end of a block
\* comment, a star, the start of a line comment, a line break, a semicolon
\* or a from clause
CommentTokens ==
    {Token("/*", "", ""), Token("*/", "", ""), Token("*", "", ""),
     Token("--", "", ""), Token("\n", "", ""), Token(";", "", ""),
     Token("from", "s", "a")}

\* the texts with comments: two tokens do not spell a third "/*" or "*/"
\* where they meet, and a match is not directly followed by another one
CommentTexts ==
    {text \in UNION {[1..n -> CommentTokens] : n \in 0..MaxTokens} :
        \A n \in 1..(Len(text) - 1) :
            /\ ~(text[n].kw \in {"/*", "*"} /\ text[n + 1].kw = "/*")
            /\ ~(text[n].kw = "*/" /\ text[n + 1].kw \in {"*/", "*"})
            /\ ~(IsReference(text[n]) /\ IsReference(text[n + 1]))}

\* te = TableExtractor(sql), for a text with comments
InitComments ==
    /\ sql \in CommentTexts
    /\ NewExtractor
    /\ NoValidator

SpecComments == InitComments /\ [][NextText]_vars

\* the tokens of a text with calls: the start of a call of trim or of extract,
\* a parenthesis, or a from clause
CallTokens ==
    {Token("trim(", "", ""), Token("extract(", "", ""), Token("(", "", ""),
     Token(")", "", ""), Token("from", "s", "a")}

\* the texts with calls: a match is not directly followed by a letter
CallTexts ==
    {text \in UNION {[1..n -> CallTokens] : n \in 0..MaxCallTokens} :
        \A n \in 1..(Len(text) - 1) :
            IsReference(text[n]) => text[n + 1].kw \in {"(", ")"}}

\* te = TableExtractor(sql), for a text with calls
InitCalls ==
    /\ sql \in CallTexts
    /\ NewExtractor
    /\ NoValidator

SpecCalls == InitCalls /\ [][NextText]_vars

----------------------------------------------------------------------------
(* values read from the database *)

None == [type |-> "NoneType"]

Datetime(n) == [type |-> "datetime", ts |-> n]

Str(x) == [type |-> "str", s |-> x]

\* pyodbc.ProgrammingError raised by execute()
ProgrammingError == [type |-> "ProgrammingError"]

\* the datetime values of the model, as instants
Instants == {1, 2}

\* isinstance(x, datetime)
IsDatetime(x) == x.type = "datetime"

\* names as sequences of characters
Letters == {"A", "C", "D", "L", "O", "P", "T", "U", "a", "c", "t"}

NameCharacters == Letters \cup {"0", "1", "_", "-"}

\* str.upper() of a sequence of characters
UpperChar(c) ==
    CASE c = "a" -> "A"
      [] c = "c" -> "C"
      [] c = "t" -> "T"
      [] OTHER -> c

Upper(name) == [n \in DOMAIN name |-> UpperChar(name[n])]

\* the table_catalog arguments of the model
CatalogNames ==
    {<<"c", ".", "t">>, <<"c", "t">>, <<"c", "?", ".", "t">>, <<"c", ".", "t", ".", "t">>,
     <<".", "t">>, <<"c", ".">>, <<"c", ".", "t", "\n">>, <<>>}

\* the object_update_column values of the model
UpdateColumns == {<<>>, <<"U", "P", "L", "O", "A", "D">>, <<"U", "P", "\"">>}

\* the object_minimum_update values of the model
MinimumUpdates == {None, Str("2100-01-01")} \cup {Datetime(n) : n \in Instants}

\* the rows (object_update_frequency, object_update_column, object_minimum_update,
\* object_next_regular_update) of the table catalog
CatalogRows ==
    [update_frequency : {"D"}, update_column : UpdateColumns,
     minimum_update_ts : MinimumUpdates, next_regular_update_ts : {Datetime(2)}]

\* the outcomes of a select max(update_column) query: the exception, no row or
\* a NULL, a value that is no datetime, a datetime
FreshnessResults ==
    {ProgrammingError, None, Str("text")} \cup {Datetime(n) : n \in Instants}

----------------------------------------------------------------------------
(* TableValidation *)

NoError == <<>>

\* table is the position of the Table in the tables list
TableValidation(table) ==
    [table |-> table, in_database |-> FALSE, in_table_catalog |-> FALSE,
     update_frequency |-> "", update_column |-> <<>>, minimum_update_ts |-> None,
     next_regular_update_ts |-> None, actual_update_ts |-> None,
     content_current |-> FALSE, validation_successful |-> FALSE,
     validation_error |-> NoError]

----------------------------------------------------------------------------
(* SqlValidator: the checks of the names *)

_check_valid_characters(table_name) ==
    \A n \in DOMAIN table_name : table_name[n] \in NameCharacters \cup {"."}

\* the part of the name the pattern has to match: $ also matches before a
\* newline that ends the name
BeforeLastNewline(table_name) ==
    IF Len(table_name) > 0 /\ table_name[Len(table_name)] = "\n"
    THEN SubSeq(table_name, 1, Len(table_name) - 1)
    ELSE table_name

\* _check_table_name_format with a pattern that is not anchored
CheckTableNameFormatUnanchored(table_name) ==
    \E d \in DOMAIN table_name :
        /\ table_name[d] = "."
        /\ d > 1
        /\ d < Len(table_name)
        /\ table_name[d - 1] \in NameCharacters
        /\ table_name[d + 1] \in NameCharacters

_check_table_name_format(table_name) ==
    LET matched == BeforeLastNewline(table_name)
    IN  \E d \in DOMAIN matched :
            /\ matched[d] = "."
            /\ d > 1
            /\ d < Len(matched)
            /\ \A n \in DOMAIN matched \ {d} : matched[n] \in NameCharacters

table_names_fully_qualified(cash) == Keys(cash)

----------------------------------------------------------------------------
(* SqlValidator: the messages, as sequences of words *)

NotFoundError == <<"table", "not", "found", "in", "the", "database">>

\* str(value), in an f-string
Format(value) == ToString(value)

NotRegisteredError(catalog) == <<"table", "not", "registered", "in", Format(catalog)>>

BlankColumnError == <<"update", "column", "name", "is", "blank">>

InvalidColumnError ==
    <<"the", "upload", "column", "name", "contains", "invalid", "characters">>

InvalidMinimumError(ts) ==
    <<"invalid", "minimum", "update", "timestamp", "in", "the", "table", "catalog:",
      Format(ts)>>

BlankTableError == <<"table", "is", "blank">>

InvalidTypeError(column, type) ==
    <<"invalid", "data", "type", "in", Format(column), "-", "datetime", "expected,", type,
      "received">>

FreshnessSql(column, name) ==
    <<"select", "max(", Format(column), ")", "from", Format(name)>>

QueryError(query) == <<"unable", "to", "run", "query">> \o query

OutdatedError(minimum, actual) ==
    <<"outdated", "data", "-", "minimal", "update:", Format(minimum), "actual", "update:",
      Format(actual)>>

\* phrase in message
Contains(message, phrase) ==
    \E k \in 0..(Len(message) - Len(phrase)) :
        \A n \in 1..Len(phrase) : message[k + n] = phrase[n]

----------------------------------------------------------------------------
(* SqlValidator._check_table_content: one record *)

\* hasattr(t, "parent_tables")
HasParentTables(t) == "parent_tables" \in DOMAIN t

\* what the body of the loop leaves: the record, the queries it sent and the
\* exception that leaves the method
Outcome(tv, sent, exception) == [tv |-> tv, queries |-> sent, raised |-> exception]

\* Failed without the continue: the body goes on to its last line
FailedWithoutContinue(tv, message, sent) ==
    Outcome([tv EXCEPT !.validation_error = message, !.validation_successful = TRUE],
            sent, "None")

Failed(tv, message, sent) ==
    Outcome([tv EXCEPT !.validation_error = message], sent, "None")

\* Successful that marks a record made anew for the table
SuccessfulAnew(tv, sent) ==
    Outcome([TableValidation(tv.table) EXCEPT !.validation_successful = TRUE], sent, "None")

Successful(tv, sent) == Outcome([tv EXCEPT !.validation_successful = TRUE], sent, "None")

\* the freshness query, logged with what the database answered
FreshnessQuery(tv, t, result) ==
    [kind |-> "freshness", name |-> full_name(t), column |-> tv.update_column,
     result |-> result]

\* FreshnessCheck without the exemption of the tables that have parents
FreshnessCheckNoExemption(tv, t, result) ==
    LET sent == <<FreshnessQuery(tv, t, result)>>
    IN  IF result = ProgrammingError
        THEN Failed(tv, QueryError(FreshnessSql(tv.update_column, full_name(t))), sent)
        ELSE IF result = None
        THEN Failed(tv, BlankTableError, sent)
        ELSE IF ~IsDatetime(result)
        THEN Failed(tv, InvalidTypeError(tv.update_column, result.type), sent)
        ELSE LET tv1 == [tv EXCEPT !.actual_update_ts = result]
             IN  IF tv1.minimum_update_ts.ts > tv1.actual_update_ts.ts
                 THEN Failed(tv1, OutdatedError(tv1.minimum_update_ts, tv1.actual_update_ts),
                             sent)
                 ELSE Successful([tv1 EXCEPT !.content_current = TRUE], sent)

\* the freshness query of a table that is only read, and the comparison of its
\* result with the minimum update timestamp
FreshnessCheck(tv, t, result) ==
    LET sent == <<FreshnessQuery(tv, t, result)>>
    IN  IF result = ProgrammingError
        THEN Failed(tv, QueryError(FreshnessSql(tv.update_column, full_name(t))), sent)
        ELSE IF result = None
        THEN Failed(tv, BlankTableError, sent)
        ELSE IF ~IsDatetime(result)
        THEN Failed(tv, InvalidTypeError(tv.update_column, result.type), sent)
        ELSE LET tv1 == [tv EXCEPT !.actual_update_ts = result]
             IN  IF tv1.minimum_update_ts.ts > tv1.actual_update_ts.ts
                 THEN IF ~HasParentTables(t)
                      THEN Outcome(tv1, sent, "AttributeError")
                      ELSE IF Len(t.parent_tables) = 0
                      THEN Failed(tv1, OutdatedError(tv1.minimum_update_ts,
                                                     tv1.actual_update_ts), sent)
                      ELSE Successful([tv1 EXCEPT !.content_current = TRUE], sent)
                 ELSE Successful([tv1 EXCEPT !.content_current = TRUE], sent)

\* FreshnessGate that takes a populated table for a table that is only read
FreshnessGatePopulated(tv, t, result) ==
    IF t.created = FALSE /\ t.renamed = FALSE
    THEN FreshnessCheck(tv, t, result)
    ELSE Successful(tv, <<>>)

\* the freshness check is not applicable for created / renamed / populated tables
FreshnessGate(tv, t, result) ==
    IF t.created = FALSE /\ t.renamed = FALSE /\ t.populated = FALSE
    THEN FreshnessCheck(tv, t, result)
    ELSE Successful(tv, <<>>)

\* CatalogGates that looks at the minimum update timestamp before the update column
CatalogGatesMinimumFirst(tv, t, catalog, result) ==
    IF ~tv.in_table_catalog
    THEN Failed(tv, NotRegisteredError(catalog), <<>>)
    ELSE IF tv.minimum_update_ts = None \/ ~IsDatetime(tv.minimum_update_ts)
    THEN Failed(tv, InvalidMinimumError(tv.minimum_update_ts), <<>>)
    ELSE IF tv.update_column = <<>>
    THEN Failed(tv, BlankColumnError, <<>>)
    ELSE IF _check_valid_characters(tv.update_column) = FALSE
    THEN Failed(tv, InvalidColumnError, <<>>)
    ELSE FreshnessGate(tv, t, result)

\* the checks of the catalog fields of the record
CatalogGates(tv, t, catalog, result) ==
    IF ~tv.in_table_catalog
    THEN Failed(tv, NotRegisteredError(catalog), <<>>)
    ELSE IF tv.update_column = <<>>
    THEN Failed(tv, BlankColumnError, <<>>)
    ELSE IF _check_valid_characters(tv.update_column) = FALSE
    THEN Failed(tv, InvalidColumnError, <<>>)
    ELSE IF tv.minimum_update_ts = None \/ ~IsDatetime(tv.minimum_update_ts)
    THEN Failed(tv, InvalidMinimumError(tv.minimum_update_ts), <<>>)
    ELSE FreshnessGate(tv, t, result)

\* CheckRecord that does not look for a populated table in the database
CheckRecordPopulatedExempt(tv, t, catalog, result) ==
    IF tv.in_database = FALSE /\ t.created = FALSE /\ t.renamed = FALSE
       /\ t.populated = FALSE
    THEN Failed(tv, NotFoundError, <<>>)
    ELSE CatalogGates(tv, t, catalog, result)

\* the body of the loop for one record; result is what the database answers
\* to the freshness query, if the body sends it
CheckRecord(tv, t, catalog, result) ==
    IF tv.in_database = FALSE /\ t.created = FALSE /\ t.renamed = FALSE
    THEN Failed(tv, NotFoundError, <<>>)
    ELSE CatalogGates(tv, t, catalog, result)

\* the answers the database can give to the body of the loop for one record
ResultsFor(tv, t, catalog) ==
    IF CheckRecord(tv, t, catalog, None).queries = <<>> THEN {None} ELSE FreshnessResults

----------------------------------------------------------------------------
(* SqlValidator.__post_init__ *)

\* SqlValidator(db_connection, table_catalog, sql): the extractor is created
\* from the sql argument
InitValidator ==
    /\ sql \in ValidatedTexts
    /\ NewExtractor
    /\ table_catalog \in CatalogNames
    /\ table_validations = <<>>
    /\ v_table_cash = <<>>
    /\ vpc = "analyze"
    /\ j = 0
    /\ queries = <<>>
    /\ raised = "None"
    /\ patches = 0

\* self.table_extractor.analyze(), up to the loop over the statements
PostInitAnalyze ==
    /\ vpc = "analyze"
    /\ pc = "new"
    /\ _sql_statements' = sql
    /\ i' = 1
    /\ pc' = "loop"
    /\ calls' = calls + 1
    /\ UNCHANGED <<sql, _table_cash, tables>>
    /\ UNCHANGED <<validator_vars, patches>>

\* self._table_cash that keeps the first record under every full name
RECURSIVE ValidationCashFirst(_, _)
ValidationCashFirst(tbls, n) ==
    IF n = 0 THEN <<>>
    ELSE Put(ValidationCashFirst(tbls, n - 1), full_name(tbls[n]), 1)

\* self._table_cash after the first n tables: full name -> position of the record
RECURSIVE ValidationCash(_, _)
ValidationCash(tbls, n) ==
    IF n = 0 THEN <<>>
    ELSE Put(ValidationCash(tbls, n - 1), full_name(tbls[n]), n)

\* the records are created and the name of the table catalog is checked
CreateValidations ==
    /\ vpc = "analyze"
    /\ pc = "analyzed"
    /\ table_validations' = [n \in DOMAIN tables |-> TableValidation(n)]
    /\ v_table_cash' = ValidationCash(tables, Len(tables))
    /\ table_catalog' = Upper(table_catalog)
    /\ IF _check_valid_characters(table_catalog') = FALSE
          \/ _check_table_name_format(table_catalog') = FALSE
       THEN vpc' = "raised" /\ raised' = "SqlValidatorError"
       ELSE vpc' = "probe" /\ raised' = raised
    /\ UNCHANGED <<j, queries>>
    /\ UNCHANGED <<extractor_vars, patches>>

\* select top 1 1 from the table catalog
ProbeCatalog ==
    /\ vpc = "probe"
    /\ \E ok \in BOOLEAN :
        /\ queries' = Append(queries,
                [kind |-> "probe", catalog |-> table_catalog, result |-> ok])
        /\ IF ok THEN vpc' = "existence" /\ raised' = raised
           ELSE vpc' = "raised" /\ raised' = "SqlValidatorError"
    /\ UNCHANGED <<table_catalog, table_validations, v_table_cash, j>>
    /\ UNCHANGED <<extractor_vars, patches>>

\* the records with in_database set for the rows of the result
MarkInDatabase(tvs, cash, rows) ==
    [n \in DOMAIN tvs |->
        IF \E row \in rows : Get(cash, row) = n
        THEN [tvs[n] EXCEPT !.in_database = TRUE]
        ELSE tvs[n]]

\* _check_table_existence with one query for each table
CheckTableExistencePerTable ==
    /\ vpc = "existence"
    /\ queries' = queries \o
            [n \in DOMAIN v_table_cash |->
                [kind |-> "existence", names |-> <<v_table_cash[n].key>>]]
    /\ \E rows \in SUBSET Range(table_names_fully_qualified(v_table_cash)) :
        table_validations' = MarkInDatabase(table_validations, v_table_cash, rows)
    /\ vpc' = "catalog"
    /\ UNCHANGED <<table_catalog, v_table_cash, j, raised>>
    /\ UNCHANGED <<extractor_vars, patches>>

_check_table_existence ==
    /\ vpc = "existence"
    /\ IF table_validations = <<>>
       THEN /\ vpc' = "catalog"
            /\ UNCHANGED <<table_validations, queries, raised>>
       ELSE /\ queries' = Append(queries,
                [kind |-> "existence", names |-> table_names_fully_qualified(v_table_cash)])
            /\ \/ /\ vpc' = "raised"
                  /\ raised' = "SqlValidatorError"
                  /\ UNCHANGED table_validations
               \/ \E rows \in SUBSET Range(table_names_fully_qualified(v_table_cash)) :
                  /\ table_validations' = MarkInDatabase(table_validations, v_table_cash, rows)
                  /\ vpc' = "catalog"
                  /\ UNCHANGED raised
    /\ UNCHANGED <<table_catalog, v_table_cash, j>>
    /\ UNCHANGED <<extractor_vars, patches>>

\* the records with the catalog fields set for the rows of the result
MarkInCatalog(tvs, cash, rows) ==
    [n \in DOMAIN tvs |->
        IF \E name \in DOMAIN rows : Get(cash, name) = n
        THEN LET row == rows[CHOOSE name \in DOMAIN rows : Get(cash, name) = n]
             IN  [tvs[n] EXCEPT !.in_table_catalog = TRUE,
                                !.update_frequency = row.update_frequency,
                                !.update_column = row.update_column,
                                !.minimum_update_ts = row.minimum_update_ts,
                                !.next_regular_update_ts = row.next_regular_update_ts]
        ELSE tvs[n]]

\* _read_table_catalog that sends its query also when there is no record
ReadTableCatalogAlways ==
    /\ vpc = "catalog"
    /\ queries' = Append(queries,
            [kind |-> "catalog", names |-> table_names_fully_qualified(v_table_cash)])
    /\ \/ /\ vpc' = "raised"
          /\ raised' = "SqlValidatorError"
          /\ UNCHANGED table_validations
       \/ \E found \in SUBSET Range(table_names_fully_qualified(v_table_cash)) :
          \E rows \in [found -> CatalogRows] :
          /\ table_validations' = MarkInCatalog(table_validations, v_table_cash, rows)
          /\ vpc' = "content"
          /\ UNCHANGED raised
    /\ j' = IF vpc' = "content" THEN 1 ELSE j
    /\ UNCHANGED <<table_catalog, v_table_cash>>
    /\ UNCHANGED <<extractor_vars, patches>>

_read_table_catalog ==
    /\ vpc = "catalog"
    /\ IF table_validations = <<>>
       THEN /\ vpc' = "content"
            /\ UNCHANGED <<table_validations, queries, raised>>
       ELSE /\ queries' = Append(queries,
                [kind |-> "catalog", names |-> table_names_fully_qualified(v_table_cash)])
            /\ \/ /\ vpc' = "raised"
                  /\ raised' = "SqlValidatorError"
                  /\ UNCHANGED table_validations
               \/ \E found \in SUBSET Range(table_names_fully_qualified(v_table_cash)) :
                  \E rows \in [found -> CatalogRows] :
                  /\ table_validations' = MarkInCatalog(table_validations, v_table_cash, rows)
                  /\ vpc' = "content"
                  /\ UNCHANGED raised
    /\ j' = IF vpc' = "content" THEN 1 ELSE j
    /\ UNCHANGED <<table_catalog, v_table_cash>>
    /\ UNCHANGED <<extractor_vars, patches>>

\* _check_table_content that goes through the records from the last to the first
CheckTableContentBackwards ==
    /\ vpc = "content"
    /\ j <= Len(table_validations)
    /\ LET k == Len(table_validations) + 1 - j
           tv == table_validations[k]
           t == tables[tv.table]
       IN  \E result \in ResultsFor(tv, t, table_catalog) :
            LET out == CheckRecord(tv, t, table_catalog, result)
            IN  /\ table_validations' = [table_validations EXCEPT ![k] = out.tv]
                /\ queries' = queries \o out.queries
                /\ raised' = out.raised
                /\ vpc' = IF out.raised # "None" THEN "raised" ELSE "content"
    /\ j' = j + 1
    /\ UNCHANGED <<table_catalog, v_table_cash>>
    /\ UNCHANGED <<extractor_vars, patches>>

\* one iteration of the loop of _check_table_content
_check_table_content ==
    /\ vpc = "content"
    /\ j <= Len(table_validations)
    /\ LET tv == table_validations[j]
           t == tables[tv.table]
       IN  \E result \in ResultsFor(tv, t, table_catalog) :
            LET out == CheckRecord(tv, t, table_catalog, result)
            IN  /\ table_validations' = [table_validations EXCEPT ![j] = out.tv]
                /\ queries' = queries \o out.queries
                /\ raised' = out.raised
                /\ vpc' = IF out.raised # "None" THEN "raised" ELSE "content"
    /\ j' = j + 1
    /\ UNCHANGED <<table_catalog, v_table_cash>>
    /\ UNCHANGED <<extractor_vars, patches>>

\* the loop of _check_table_content ends, and __post_init__ returns
PostInitReturn ==
    /\ vpc = "content"
    /\ j > Len(table_validations)
    /\ vpc' = "done"
    /\ UNCHANGED <<table_catalog, table_validations, v_table_cash, j, queries, raised>>
    /\ UNCHANGED <<extractor_vars, patches>>

NextValidator ==
    \/ PostInitAnalyze
    \/ AnalyzeStatement
    \/ CreateValidations
    \/ ProbeCatalog
    \/ _check_table_existence
    \/ _read_table_catalog
    \/ _check_table_content
    \/ PostInitReturn

SpecValidator == InitValidator /\ [][NextValidator]_vars

\* the references to tables that are read
SourceReferences == {r \in References : r.kw \in {"from", "join"}}

\* texts of one statement that reads tables
SourceTexts == {<<statement>> : statement \in SubsetsUpTo(SourceReferences, MaxRefs)}

\* SqlValidator(db_connection, table_catalog, sql) for a text that reads tables
InitSources ==
    /\ sql \in SourceTexts
    /\ NewExtractor
    /\ table_catalog \in CatalogNames
    /\ table_validations = <<>>
    /\ v_table_cash = <<>>
    /\ vpc = "analyze"
    /\ j = 0
    /\ queries = <<>>
    /\ raised = "None"
    /\ patches = 0

SpecSources == InitSources /\ [][NextValidator]_vars

----------------------------------------------------------------------------
(* A caller that patches the objects of a built SqlValidator and runs            *)
(* _check_table_content again, as the tests of the package do                     *)

\* the texts given to the patched validators: one statement with one reference
PatchedTexts == {<<{r}>> : r \in References}

FullNames == {<<upper(schema), upper(name)>> : schema \in RawSchemas, name \in RawNames}

\* the lists of parents a caller attaches, as full names
ParentLists == {<<>>} \cup {<<name>> : name \in FullNames}

\* t with the attribute parent_tables set
WithParentTables(t, parents) ==
    [a \in DOMAIN t \cup {"parent_tables"} |->
        IF a = "parent_tables" THEN parents ELSE t[a]]

InitPatched ==
    /\ sql \in PatchedTexts
    /\ NewExtractor
    /\ table_catalog \in CatalogNames
    /\ table_validations = <<>>
    /\ v_table_cash = <<>>
    /\ vpc = "analyze"
    /\ j = 0
    /\ queries = <<>>
    /\ raised = "None"
    /\ patches = 0

\* t.parent_tables = parent_tables, on a Table of the extractor
AttachParents ==
    /\ vpc = "done"
    /\ patches < MaxPatches
    /\ \E n \in DOMAIN tables, parents \in ParentLists :
        /\ tables' = [tables EXCEPT ![n] = WithParentTables(tables[n], parents)]
        /\ _table_cash' = [_table_cash EXCEPT ![n].val = WithParentTables(tables[n], parents)]
    /\ patches' = patches + 1
    /\ UNCHANGED <<sql, _sql_statements, pc, i, calls>>
    /\ UNCHANGED validator_vars

\* a record is given another minimum update timestamp, its results are reset
\* and _check_table_content() is called
PatchAndRecheck ==
    /\ vpc = "done"
    /\ patches < MaxPatches
    /\ \E n \in DOMAIN table_validations, minimum \in {Datetime(m) : m \in Instants} :
        table_validations' =
            [table_validations EXCEPT ![n].validation_error = NoError,
                                      ![n].minimum_update_ts = minimum,
                                      ![n].actual_update_ts = None,
                                      ![n].content_current = FALSE]
    /\ vpc' = "content"
    /\ j' = 1
    /\ patches' = patches + 1
    /\ UNCHANGED <<table_catalog, v_table_cash, queries, raised>>
    /\ UNCHANGED extractor_vars

NextPatched == NextValidator \/ AttachParents \/ PatchAndRecheck

SpecPatched == InitPatched /\ [][NextPatched]_vars

----------------------------------------------------------------------------
(* Properties of TableExtractor.analyze() *)

\* the lineage parents of a table, as full names; none when the Table has no
\* parent_tables attribute
ParentNames(t) == IF HasParentTables(t) THEN t.parent_tables ELSE <<>>

\* the statements after position n that create, rename to or populate name
DefinedLater(n, name) ==
    \E m \in DOMAIN _sql_statements :
        /\ m > n
        /\ \/ name \in _identify_target_tables(_sql_statements[m])
           \/ name \in _identify_populated_tables(_sql_statements[m])
           \/ \E rt \in _identify_renamed_tables(_sql_statements[m]) : rt[2] = name

\* name has exactly one entry among the parents of t
OneParent(t, name) ==
    Cardinality({n \in DOMAIN ParentNames(t) : ParentNames(t)[n] = name}) = 1

\* C1: at every point between two statements of analyze(), first call or
\* repeated, the registry holds at most one Table per full_name, every Table is
\* stored under the key equal to its own full_name, and the tables list is the
\* list of the registry's values, no full_name occurring twice.
C1_RegistryConsistent ==
    /\ \A m, n \in DOMAIN _table_cash :
        full_name(_table_cash[m].val) = full_name(_table_cash[n].val) => m = n
    /\ \A n \in DOMAIN _table_cash : _table_cash[n].key = full_name(_table_cash[n].val)
    /\ tables = Values(_table_cash)
    /\ \A m, n \in DOMAIN tables :
        full_name(tables[m]) = full_name(tables[n]) => m = n

\* a repeated analyze() has ended on a registry of two tables
C1_Witness ==
    /\ calls = 2
    /\ pc = "analyzed"
    /\ Len(tables) = 2
    /\ \E n \in DOMAIN tables : tables[n].used /\ tables[n].created

\* C2: no step of analyze() removes a table from the registry or resets one of
\* the flags used, created, renamed, populated of a table.
C2_FlagsAccumulate ==
    [][\A n \in DOMAIN _table_cash :
        /\ n \in DOMAIN _table_cash'
        /\ _table_cash'[n].key = _table_cash[n].key
        /\ _table_cash[n].val.used => _table_cash'[n].val.used
        /\ _table_cash[n].val.created => _table_cash'[n].val.created
        /\ _table_cash[n].val.renamed => _table_cash'[n].val.renamed
        /\ _table_cash[n].val.populated => _table_cash'[n].val.populated]_vars

\* a table created by the first statement has been read by the second
C2_Witness ==
    /\ pc = "analyzed"
    /\ Len(_sql_statements) = 2
    /\ \E n \in DOMAIN _table_cash :
        /\ _table_cash[n].key \in _identify_target_tables(_sql_statements[1])
        /\ _table_cash[n].key \in _identify_source_tables(_sql_statements[2])
        /\ _table_cash[n].val.created
        /\ _table_cash[n].val.used

\* C3: after analyze(), the target of every CREATE TABLE / CREATE HADOOP TABLE
\* statement is created and has exactly one lineage parent for every source
\* table of that statement, each parent being a table of the registry.
C3_CreatedHasParents ==
    pc = "analyzed" =>
        \A n \in DOMAIN _sql_statements :
            \A tt \in _identify_target_tables(_sql_statements[n]) :
                /\ HasKey(_table_cash, tt)
                /\ Get(_table_cash, tt).created
                /\ \A st \in _identify_source_tables(_sql_statements[n]) :
                    OneParent(Get(_table_cash, tt), st)
                /\ \A p \in Range(ParentNames(Get(_table_cash, tt))) :
                    HasKey(_table_cash, p)

\* C4: after analyze(), for every RENAME TABLE schema.old TO new statement the
\* registry holds SCHEMA.OLD used and SCHEMA.NEW renamed, with the statement as
\* its sql (unless a later statement defines it again) and SCHEMA.OLD as a
\* lineage parent.
C4_RenamedHasParent ==
    pc = "analyzed" =>
        \A n \in DOMAIN _sql_statements :
            \A rt \in _identify_renamed_tables(_sql_statements[n]) :
                /\ HasKey(_table_cash, rt[1])
                /\ Get(_table_cash, rt[1]).used
                /\ HasKey(_table_cash, rt[2])
                /\ Get(_table_cash, rt[2]).renamed
                /\ rt[2][1] = rt[1][1]
                /\ DefinedLater(n, rt[2]) \/ Get(_table_cash, rt[2]).sql = _sql_statements[n]
                /\ OneParent(Get(_table_cash, rt[2]), rt[1])

\* C5: after analyze(), the table of every INSERT INTO / INTO TABLE statement is
\* populated, has the statement as its sql (unless a later statement defines it
\* again) and has a lineage parent for every source table of that statement.
C5_PopulatedHasParents ==
    pc = "analyzed" =>
        \A n \in DOMAIN _sql_statements :
            \A pt \in _identify_populated_tables(_sql_statements[n]) :
                /\ HasKey(_table_cash, pt)
                /\ Get(_table_cash, pt).populated
                /\ DefinedLater(n, pt) \/ Get(_table_cash, pt).sql = _sql_statements[n]
                /\ \A st \in _identify_source_tables(_sql_statements[n]) :
                    OneParent(Get(_table_cash, pt), st)

----------------------------------------------------------------------------
(* Properties of the validation pass *)

\* the loop of _check_table_content has run its body for record n
Handled(n) == vpc \in {"content", "done", "raised"} /\ n < j

\* the Table of record n
TableOf(n) == tables[table_validations[n].table]

Produced(t) == t.created \/ t.renamed \/ t.populated

\* the conditions of the gates 1 to 5, on the fields the pass reads
ExistenceViolated(tv, t) == ~tv.in_database /\ ~t.created /\ ~t.renamed

RegistrationViolated(tv) == ~tv.in_table_catalog

BlankColumnViolated(tv) == Len(tv.update_column) = 0

ColumnCharactersViolated(tv) ==
    \E n \in DOMAIN tv.update_column :
        tv.update_column[n] \notin Letters \cup {"0", "1", "_", "-", "."}

MinimumViolated(tv) == tv.minimum_update_ts.type # "datetime"

\* the first gate of 1 to 5 the record violates, 0 when it passes them all
FirstViolated(tv, t) ==
    IF ExistenceViolated(tv, t) THEN 1
    ELSE IF RegistrationViolated(tv) THEN 2
    ELSE IF BlankColumnViolated(tv) THEN 3
    ELSE IF ColumnCharactersViolated(tv) THEN 4
    ELSE IF MinimumViolated(tv) THEN 5
    ELSE 0

\* a phrase only the message of gate g has
GatePhrase(g) ==
    CASE g = 1 -> <<"not", "found", "in", "the", "database">>
      [] g = 2 -> <<"not", "registered">>
      [] g = 3 -> <<"column", "name", "is", "blank">>
      [] g = 4 -> <<"invalid", "characters">>
      [] g = 5 -> <<"invalid", "minimum", "update", "timestamp">>

FreshnessQueried(name) ==
    \E q \in DOMAIN queries : queries[q].kind = "freshness" /\ queries[q].name = name

\* C6: a record the pass has handled whose table is not in the database and is
\* neither created nor renamed has an error containing "not found in the
\* database", is not successful, not current, and has no actual update
\* timestamp, whatever its populated flag and its catalog fields.
C6_ExistenceGate ==
    \A n \in DOMAIN table_validations :
        Handled(n) /\ ExistenceViolated(table_validations[n], TableOf(n)) =>
            /\ Contains(table_validations[n].validation_error,
                        <<"not", "found", "in", "the", "database">>)
            /\ table_validations[n].validation_successful = FALSE
            /\ table_validations[n].content_current = FALSE
            /\ table_validations[n].actual_update_ts = None

\* a populated table with a complete catalog row was not found in the database
C6_Witness ==
    \E n \in DOMAIN table_validations :
        /\ Handled(n)
        /\ ExistenceViolated(table_validations[n], TableOf(n))
        /\ TableOf(n).populated
        /\ FirstViolated([table_validations[n] EXCEPT !.in_database = TRUE], TableOf(n)) = 0

\* C7: the error of a handled record that violates one of the gates 1 to 5 is
\* the error of the first gate it violates, in the order existence, catalog
\* registration, blank update column, invalid update-column characters,
\* invalid minimum timestamp; no freshness query is sent for such a table.
C7_FirstGateWins ==
    \A n \in DOMAIN table_validations :
        LET g == FirstViolated(table_validations[n], TableOf(n))
        IN  Handled(n) /\ g # 0 =>
                /\ Contains(table_validations[n].validation_error, GatePhrase(g))
                /\ \A h \in 1..5 :
                    h # g => ~Contains(table_validations[n].validation_error, GatePhrase(h))
                /\ ~FreshnessQueried(full_name(TableOf(n)))

\* a record with invalid characters in its update column and no valid minimum
\* timestamp has been handled
C7_Witness ==
    \E n \in DOMAIN table_validations :
        /\ Handled(n)
        /\ FirstViolated(table_validations[n], TableOf(n)) = 4
        /\ MinimumViolated(table_validations[n])

\* C8: for a table that is created, renamed or populated no freshness query is
\* sent and actual_update_ts and content_current are never set; once handled,
\* it is successful if it passes the gates 1 to 5.
C8_NoFreshnessForProduced ==
    \A n \in DOMAIN table_validations :
        Produced(TableOf(n)) =>
            /\ ~FreshnessQueried(full_name(TableOf(n)))
            /\ table_validations[n].actual_update_ts = None
            /\ table_validations[n].content_current = FALSE
            /\ Handled(n) /\ FirstViolated(table_validations[n], TableOf(n)) = 0 =>
                table_validations[n].validation_successful

\* a table that is populated, and neither created nor renamed, has passed
C8_Witness ==
    \E n \in DOMAIN table_validations :
        /\ Handled(n)
        /\ TableOf(n).populated /\ ~TableOf(n).created /\ ~TableOf(n).renamed
        /\ table_validations[n].validation_successful

\* C9: a handled record of a table that is only read, that passes the gates 1
\* to 5, has no lineage parents and whose freshness query returned a timestamp
\* below minimum_update_ts has an error containing "outdated", and is neither
\* current nor successful.
C9_OutdatedSource ==
    \A n \in DOMAIN table_validations :
        (/\ Handled(n)
         /\ ~Produced(TableOf(n))
         /\ FirstViolated(table_validations[n], TableOf(n)) = 0
         /\ Len(ParentNames(TableOf(n))) = 0
         /\ \E q \in DOMAIN queries :
                /\ queries[q].kind = "freshness"
                /\ queries[q].name = full_name(TableOf(n))
                /\ IsDatetime(queries[q].result)
                /\ table_validations[n].minimum_update_ts.ts > queries[q].result.ts)
        => /\ Contains(table_validations[n].validation_error, <<"outdated">>)
           /\ table_validations[n].content_current = FALSE
           /\ table_validations[n].validation_successful = FALSE

\* the step is an iteration of the loop of _check_table_content on a record
\* without error whose table is only read, has a lineage parent and passes the
\* gates 1 to 5, and the freshness query it sends returns a timestamp below
\* minimum_update_ts
ExemptStep ==
    /\ vpc = "content"
    /\ j \in DOMAIN table_validations
    /\ j' = j + 1
    /\ table_validations[j].validation_error = NoError
    /\ ~Produced(TableOf(j))
    /\ Len(ParentNames(TableOf(j))) >= 1
    /\ FirstViolated(table_validations[j], TableOf(j)) = 0
    /\ Len(queries') = Len(queries) + 1
    /\ queries'[Len(queries')].kind = "freshness"
    /\ IsDatetime(queries'[Len(queries')].result)
    /\ table_validations[j].minimum_update_ts.ts > queries'[Len(queries')].result.ts

\* C10: when the pass handles the record, so far without error, of a table
\* that is only read, has at least one lineage parent and passes the gates 1
\* to 5, and the freshness query returns a timestamp below minimum_update_ts,
\* no "outdated" error is recorded: the error stays empty and the record
\* becomes current and successful.
C10_ParentExemption ==
    [][ExemptStep =>
        /\ table_validations'[j].validation_error = NoError
        /\ table_validations'[j].content_current = TRUE
        /\ table_validations'[j].validation_successful = TRUE
        /\ table_validations'[j].actual_update_ts = queries'[Len(queries')].result
        /\ raised' = "None"]_vars

\* the last query returned a timestamp below the minimum of a table that is only
\* read and has a parent, and its record is current and successful, without error
C10_Witness ==
    \E n \in DOMAIN table_validations :
        /\ Handled(n)
        /\ ~Produced(TableOf(n))
        /\ Len(ParentNames(TableOf(n))) >= 1
        /\ queries[Len(queries)].kind = "freshness"
        /\ queries[Len(queries)].name = full_name(TableOf(n))
        /\ table_validations[n].actual_update_ts = queries[Len(queries)].result
        /\ IsDatetime(table_validations[n].actual_update_ts)
        /\ table_validations[n].minimum_update_ts.ts
                > table_validations[n].actual_update_ts.ts
        /\ table_validations[n].validation_error = NoError
        /\ table_validations[n].content_current
        /\ table_validations[n].validation_successful

\* the freshness query sent for record n stopped it: it raised, returned no
\* value or no datetime, or returned a timestamp below the minimum of a table
\* without lineage parents
StoppedByFreshness(n) ==
    \E q \in DOMAIN queries :
        /\ queries[q].kind = "freshness"
        /\ queries[q].name = full_name(TableOf(n))
        /\ \/ ~IsDatetime(queries[q].result)
           \/ /\ table_validations[n].minimum_update_ts.ts > queries[q].result.ts
              /\ Len(ParentNames(TableOf(n))) = 0

\* C11: in a pass over freshly created records, a record is successful exactly
\* when the pass has handled it and none of the gates 1 to 5 nor the freshness
\* step stopped it; a successful record of a table that is only read has the
\* timestamp the freshness query returned as actual_update_ts, is current and
\* has an empty error.
C11_SuccessPath ==
    \A n \in DOMAIN table_validations :
        /\ table_validations[n].validation_successful <=>
                /\ Handled(n)
                /\ FirstViolated(table_validations[n], TableOf(n)) = 0
                /\ ~StoppedByFreshness(n)
        /\ table_validations[n].validation_successful /\ ~Produced(TableOf(n)) =>
                /\ \E q \in DOMAIN queries :
                    /\ queries[q].kind = "freshness"
                    /\ queries[q].name = full_name(TableOf(n))
                    /\ IsDatetime(queries[q].result)
                    /\ table_validations[n].actual_update_ts = queries[q].result
                /\ table_validations[n].content_current = TRUE
                /\ table_validations[n].validation_error = NoError

\* a table that is only read has passed with a timestamp at its minimum or later
C11_Witness ==
    \E n \in DOMAIN table_validations :
        /\ Handled(n)
        /\ ~Produced(TableOf(n))
        /\ table_validations[n].validation_successful
        /\ IsDatetime(table_validations[n].actual_update_ts)
        /\ table_validations[n].minimum_update_ts.ts
                <= table_validations[n].actual_update_ts.ts

----------------------------------------------------------------------------
(* SqlValidator.validation_successful, the verdict on the whole text *)

\* validation after the loop over the first n records
RECURSIVE ValidationLoop(_, _)
ValidationLoop(tvs, n) ==
    IF n = 0 THEN TRUE
    ELSE ValidationLoop(tvs, n - 1) /\ tvs[n].validation_successful

\* the verdict that takes an empty list of records for a success
VerdictOfAll(tvs) == ValidationLoop(tvs, Len(tvs))

validation_successful(tvs) ==
    IF tvs # <<>> THEN ValidationLoop(tvs, Len(tvs)) ELSE FALSE

\* C12: the verdict of the validator is true exactly when table_validations is
\* not empty and every record is successful; it is false for an empty list.
C12_OverallVerdict ==
    /\ validation_successful(table_validations) <=>
            /\ Len(table_validations) > 0
            /\ \A n \in DOMAIN table_validations :
                table_validations[n].validation_successful
    /\ table_validations = <<>> => validation_successful(table_validations) = FALSE

\* the pass has ended with one successful record and one that failed
C12_Witness ==
    /\ vpc = "done"
    /\ Len(table_validations) = 2
    /\ table_validations[1].validation_successful # table_validations[2].validation_successful
    /\ validation_successful(table_validations) = FALSE

----------------------------------------------------------------------------
(* Properties of the whole construction *)

\* C13: no exception leaves the validation pass: once the pass has started,
\* nothing is raised, every record it has handled without success has its
\* failure in validation_error, and the pass goes on to every other record.
C13_FailuresRecorded ==
    /\ j >= 1 => raised = "None" /\ vpc # "raised"
    /\ \A n \in DOMAIN table_validations :
        Handled(n) /\ ~table_validations[n].validation_successful =>
            table_validations[n].validation_error # NoError
    /\ j >= 1 /\ ~ENABLED _check_table_content =>
        \A n \in DOMAIN table_validations : Handled(n)

\* the positions in the query log of the queries of one kind
QueriesOf(kind) == {q \in DOMAIN queries : queries[q].kind = kind}

\* the batched queries are behind: the validation pass has started
PassStarted == vpc \in {"content", "done"} \/ (vpc = "raised" /\ j >= 1)

\* query q names every extracted table, each once
CoversAllTables(q) ==
    /\ Len(queries[q].names) = Len(tables)
    /\ Range(queries[q].names) = {full_name(tables[n]) : n \in DOMAIN tables}

\* C14: a construction never sends more than one existence query or more than
\* one catalog query; once the validation pass of a non-empty table list has
\* started, exactly one of each has been sent, and each names all the extracted
\* tables.
C14_BatchedLookups ==
    /\ Cardinality(QueriesOf("existence")) <= 1
    /\ Cardinality(QueriesOf("catalog")) <= 1
    /\ PassStarted /\ table_validations # <<>> =>
        /\ Cardinality(QueriesOf("existence")) = 1
        /\ Cardinality(QueriesOf("catalog")) = 1
        /\ \A q \in QueriesOf("existence") \cup QueriesOf("catalog") : CoversAllTables(q)

\* the construction of a validator of two tables has ended
C14_Witness ==
    /\ vpc = "done"
    /\ Len(table_validations) = 2
    /\ \E q \in QueriesOf("existence") : Len(queries[q].names) = 2
    /\ \E q \in QueriesOf("catalog") : Len(queries[q].names) = 2

\* the place of a kind of query in the order of __post_init__
Rank(kind) ==
    CASE kind = "probe" -> 1
      [] kind = "existence" -> 2
      [] kind = "catalog" -> 3
      [] kind = "freshness" -> 4

\* the position in the table list of the table with this full name
PositionOf(name) ==
    CHOOSE n \in DOMAIN table_validations : full_name(TableOf(n)) = name

\* C15: the first query of a construction is the probe of the table catalog,
\* followed by the existence query, then the catalog query; a freshness query
\* is sent only after both of them, and the freshness queries follow the order
\* of the table list.
C15_QueryOrder ==
    /\ queries # <<>> => queries[1].kind = "probe"
    /\ \A p, q \in DOMAIN queries :
        p < q =>
            /\ Rank(queries[p].kind) <= Rank(queries[q].kind)
            /\ queries[p].kind = "freshness" =>
                PositionOf(queries[p].name) < PositionOf(queries[q].name)
    /\ \A q \in QueriesOf("freshness") :
        /\ \E p \in QueriesOf("existence") : p < q
        /\ \E p \in QueriesOf("catalog") : p < q

\* two freshness queries have been sent, after the probe and the batched queries
C15_Witness ==
    /\ Len(queries) = 5
    /\ queries[4].kind = "freshness"
    /\ queries[5].kind = "freshness"
    /\ queries[4].name # queries[5].name

\* name has the form SCHEMA.NAME: one dot, a part before it and a part after
\* it, and no character other than letters, digits, underscore and dash
WellFormed(name) ==
    /\ Cardinality({n \in DOMAIN name : name[n] = "."}) = 1
    /\ name[1] # "."
    /\ name[Len(name)] # "."
    /\ \A n \in DOMAIN name : name[n] \in NameCharacters \cup {"."}

\* C16: when the upper-cased table_catalog has not the form SCHEMA.NAME, the
\* construction raises SqlValidatorError and no query has been sent; when the
\* probe of a well-formed table catalog fails, the construction raises
\* SqlValidatorError and the probe is the only query sent.
C16_CatalogNameChecked ==
    /\ vpc # "analyze" /\ ~WellFormed(table_catalog) =>
        /\ vpc = "raised"
        /\ raised = "SqlValidatorError"
        /\ queries = <<>>
    /\ \A q \in QueriesOf("probe") :
        /\ WellFormed(queries[q].catalog)
        /\ ~queries[q].result =>
            /\ vpc = "raised"
            /\ raised = "SqlValidatorError"
            /\ Len(queries) = 1

\* a table catalog with two dots and no other invalid character was refused
C16_Witness ==
    /\ vpc = "raised"
    /\ queries = <<>>
    /\ _check_valid_characters(table_catalog)
    /\ Cardinality({n \in DOMAIN table_catalog : table_catalog[n] = "."}) = 2

----------------------------------------------------------------------------
(* Algebraic properties of the extraction *)

\* C17: when analyze() has ended, after the first call or a repeated one, the
\* set of its tables, with their flags, sql and parents, is the set every run
\* of a new extractor on the same text gives, whatever the order of the list.
C17_Idempotent ==
    pc = "analyzed" =>
        \A cash \in AnalyzeFrom(<<>>, sql, 1) : Range(Values(cash)) = Range(tables)

\* a repeated analyze() has ended on two tables, one of them with a defining
\* statement, that a new extractor can list in the other order
C17_Witness ==
    /\ pc = "analyzed"
    /\ calls = 2
    /\ Len(tables) = 2
    /\ \E n \in DOMAIN tables : tables[n].sql # NoSql
    /\ \E cash \in AnalyzeFrom(<<>>, sql, 1) : Values(cash) # tables

\* a keyword or an identifier, written in upper case
UpperCased(x) ==
    CASE x = "s" -> "S"
      [] x = "a" -> "A"
      [] x = "b" -> "B"
      [] x = "from" -> "FROM"
      [] x = "insert into" -> "INSERT INTO"
      [] x = "rename table" -> "RENAME TABLE"
      [] OTHER -> x

\* the text with every keyword and identifier written in upper case: two texts
\* that differ only in letter case have the same one
UpperCasedText(text) ==
    [n \in DOMAIN text |->
        {[kw |-> UpperCased(r.kw), schema |-> UpperCased(r.schema),
          name |-> UpperCased(r.name), to |-> UpperCased(r.to)] : r \in text[n]}]

\* C18: the registry keys extracted from a text are those extracted from the
\* same text written in upper case, so that texts differing only in letter
\* case give the same keys; every Table of the registry has an upper-case
\* schema and name, and is stored under its full_name schema.name.
C18_CaseInsensitive ==
    /\ pc = "analyzed" =>
        \A cash \in AnalyzeFrom(<<>>, UpperCasedText(sql), 1) :
            Range(Keys(cash)) = Range(Keys(_table_cash))
    /\ \A n \in DOMAIN _table_cash :
        /\ UpperCased(_table_cash[n].val.schema) = _table_cash[n].val.schema
        /\ UpperCased(_table_cash[n].val.name) = _table_cash[n].val.name
        /\ _table_cash[n].key = <<_table_cash[n].val.schema, _table_cash[n].val.name>>
        /\ full_name(_table_cash[n].val) = _table_cash[n].key

\* a statement names the same table in lower case and in upper case, and the
\* registry holds it once
C18_Witness ==
    /\ pc = "analyzed"
    /\ sql # UpperCasedText(sql)
    /\ \E r1, r2 \in sql[1] :
        /\ r1.name = "a" /\ r2.name = "A"
        /\ r1.kw = "from" /\ r2.kw = "INSERT INTO"
        /\ r1.schema # r2.schema
    /\ Len(_table_cash) = 1

----------------------------------------------------------------------------
(* Properties of the Tables analyze() leaves *)

\* the references of the text to the table name
ReferencesTo(name) ==
    UNION {{r \in sql[n] :
                \/ <<UpperCased(r.schema), UpperCased(r.name)>> = name
                \/ r.kw = "rename table" /\ <<UpperCased(r.schema), UpperCased(r.to)>> = name} :
            n \in DOMAIN sql}

\* name stands in the text after from or join, and nowhere after create table,
\* create hadoop table, rename table, insert into or into table
OnlyRead(name) ==
    /\ ReferencesTo(name) # {}
    /\ \A r \in ReferencesTo(name) : r.kw \in {"from", "join"}

\* the text holds one reference to a table, after from or join
OneSourceReference ==
    \E n \in DOMAIN sql :
        /\ Cardinality(sql[n]) = 1
        /\ \A r \in sql[n] : r.kw \in {"from", "join"}
        /\ \A m \in DOMAIN sql : m # n => sql[m] = {}

\* C19: after analyze(), a table the text only reads is in the registry with
\* used set and created, renamed and populated not set; a text with one
\* reference, after from or join, gives exactly one Table.
C19_OnlyReadTable ==
    pc = "analyzed" =>
        /\ \A name \in FullNames :
            OnlyRead(name) =>
                /\ HasKey(_table_cash, name)
                /\ Get(_table_cash, name).used = TRUE
                /\ Get(_table_cash, name).created = FALSE
                /\ Get(_table_cash, name).renamed = FALSE
                /\ Get(_table_cash, name).populated = FALSE
        /\ OneSourceReference => Len(tables) = 1 /\ OnlyRead(full_name(tables[1]))

\* a table that is read by two statements, after from and after join
C19_Witness ==
    /\ pc = "analyzed"
    /\ Len(sql) = 2
    /\ \E name \in FullNames :
        /\ OnlyRead(name)
        /\ \E r \in sql[1] : r.kw = "from"
        /\ \E r \in sql[2] : r.kw = "join"
    /\ Len(tables) = 1

\* the statement creates, renames to or populates the table name
Defines(statement, name) ==
    \E r \in statement :
        \/ /\ r.kw \in {"create table", "create hadoop table", "insert into", "into table"}
           /\ <<UpperCased(r.schema), UpperCased(r.name)>> = name
        \/ /\ r.kw = "rename table"
           /\ <<UpperCased(r.schema), UpperCased(r.to)>> = name

\* the last of the first n statements that defines name, 0 if none does
LastDefining(name, n) ==
    LET defining == {m \in 1..n : Defines(_sql_statements[m], name)}
    IN  IF defining = {} THEN 0
        ELSE CHOOSE m \in defining : \A k \in defining : k <= m

\* the statement that last defined name: among those merged by the running
\* call of analyze(), else among all those of the call before
LastMerged(name) ==
    IF LastDefining(name, i - 1) # 0 THEN LastDefining(name, i - 1)
    ELSE IF calls > 1 THEN LastDefining(name, Len(_sql_statements))
    ELSE 0

NoSemicolon(statement) == \A token \in statement : token.kw # ";"

\* C20 as stated: the sql of a table is the text, without whitespace at its
\* start and end and without ';', of the last statement so far that created,
\* renamed or populated it, and is empty for a table that was only read.
C20_SqlTrimmed ==
    \A n \in DOMAIN _table_cash :
        LET m == LastMerged(_table_cash[n].key)
        IN  IF m = 0 THEN _table_cash[n].val.sql = NoSql
            ELSE /\ _table_cash[n].val.sql = AsStatement(strip(TokensOf(_sql_statements[m])))
                 /\ NoSemicolon(_table_cash[n].val.sql)

\* C20 as amended: the sql of a table is the piece, between two ';', of the
\* cleaned text that holds the last statement so far that created, renamed or
\* populated it, with the whitespace the piece begins and ends with; it holds
\* no ';', and it is empty for a table that was only read.
C20_SqlIsStatement ==
    \A n \in DOMAIN _table_cash :
        LET m == LastMerged(_table_cash[n].key)
        IN  IF m = 0 THEN _table_cash[n].val.sql = NoSql
            ELSE /\ _table_cash[n].val.sql = _sql_statements[m]
                 /\ NoSemicolon(_table_cash[n].val.sql)

\* a table created by the first statement and populated by the second, which
\* follows the ';' after a blank
C20_Witness ==
    /\ pc = "analyzed"
    /\ Len(_sql_statements) = 2
    /\ \E n \in DOMAIN _table_cash :
        /\ Defines(_sql_statements[1], _table_cash[n].key)
        /\ Defines(_sql_statements[2], _table_cash[n].key)
        /\ _table_cash[n].val.sql = _sql_statements[2]
        /\ IsWhitespace(TokensOf(_sql_statements[2])[1])

----------------------------------------------------------------------------
(* Properties of the cleaning and of the scan for source tables *)

\* the parentheses opened less those closed by the tokens p..q of the text
RECURSIVE Depth(_, _, _)
Depth(text, p, q) ==
    IF q < p THEN 0
    ELSE Depth(text, p, q - 1)
         + (IF text[q].kw \in {"trim(", "extract(", "("} THEN 1
            ELSE IF text[q].kw = ")" THEN -1 ELSE 0)

\* token q is the parenthesis that closes the one token p opens
Closes(text, p, q) ==
    /\ p < q
    /\ Depth(text, p, q) = 0
    /\ \A m \in p..(q - 1) : Depth(text, p, m) > 0

\* token k stands in the argument list of a call of trim or of extract
Embedded(text, k) ==
    \E p \in 1..(k - 1), q \in (k + 1)..Len(text) :
        /\ text[p].kw \in {"trim(", "extract("}
        /\ Closes(text, p, q)

\* the tokens of the text that follow from or join with the table name
ClausesOf(text, name) ==
    {k \in DOMAIN text :
        /\ text[k].kw \in {"from", "join"}
        /\ <<UpperCased(text[k].schema), UpperCased(text[k].name)>> = name}

\* C21: once analyze() has returned, a table whose name follows from or join
\* only in the argument lists of calls of trim or extract, whatever else these
\* lists hold, is not among the tables.
C21_CallsMasked ==
    pc = "analyzed" =>
        \A name \in FullNames :
            (\A k \in ClausesOf(sql, name) : Embedded(sql, k)) =>
                ~HasKey(_table_cash, name)

\* the first token from k on with the keyword kw, 0 if there is none
NextOf(text, k, kw) ==
    LET found == {m \in k..Len(text) : text[m].kw = kw}
    IN  IF found = {} THEN 0 ELSE CHOOSE m \in found : \A n \in found : m <= n

\* the places from k on that stand in no comment: a "--" opens a comment
\* that runs to the end of its line, a "/*" one that runs to the next "*/"
RECURSIVE OutsideFrom(_, _)
OutsideFrom(text, k) ==
    IF k > Len(text) THEN {}
    ELSE IF text[k].kw = "--"
         THEN IF NextOf(text, k, "\n") = 0 THEN {}
              ELSE OutsideFrom(text, NextOf(text, k, "\n"))
    ELSE IF text[k].kw = "/*" /\ NextOf(text, k + 1, "*/") # 0
         THEN OutsideFrom(text, NextOf(text, k + 1, "*/") + 1)
    ELSE {k} \cup OutsideFrom(text, k + 1)

\* the text without its comments
RECURSIVE Uncommented(_, _)
Uncommented(text, k) ==
    IF k > Len(text) THEN <<>>
    ELSE IF k \in OutsideFrom(text, 1) THEN <<text[k]>> \o Uncommented(text, k + 1)
    ELSE Uncommented(text, k + 1)

\* the tokens of part are tokens of whole, in the same order
RECURSIVE IsSubsequence(_, _)
IsSubsequence(part, whole) ==
    IF part = <<>> THEN TRUE
    ELSE IF whole = <<>> THEN FALSE
    ELSE IF Head(part) = Head(whole) THEN IsSubsequence(Tail(part), Tail(whole))
    ELSE IsSubsequence(part, Tail(whole))

\* C22: what _remove_comments returns for the text holds nothing that stood
\* in a comment, whatever the comment holds; so once analyze() has returned,
\* every table is referred to outside the comments and the statements are
\* divided by the ';' outside the comments only.
C22_CommentsRemoved ==
    pc = "analyzed" =>
        /\ IsSubsequence(_remove_comments(sql), Uncommented(sql, 1))
        /\ \A n \in DOMAIN _table_cash :
            \E k \in OutsideFrom(sql, 1) : k \in ClausesOf(sql, _table_cash[n].key)
        /\ Len(_sql_statements) <= 1 + Cardinality({k \in OutsideFrom(sql, 1) : sql[k].kw = ";"})

\* C23: what _remove_comments returns for the text holds every token that
\* stands in no comment, in the same order; in particular what follows, on
\* the same line, a block comment that holds "--".
C23_TextKept ==
    pc = "analyzed" => IsSubsequence(Uncommented(sql, 1), _remove_comments(sql))

----------------------------------------------------------------------------
(* tables_to_data_frame() and to_data_frame(), the rows of the data frames *)

\* a Python list
List(items) == [type |-> "list", items |-> items]

\* table_cash of the two methods: full name -> index in the data frame
RECURSIVE IndexCash(_, _)
IndexCash(names, n) ==
    IF n = 0 THEN <<>>
    ELSE Put(IndexCash(names, n - 1), names[n], n - 1)

\* the rows tables_to_data_frame() gives to pd.DataFrame: the cell of the
\* column PARENT_TABLES is t.name
tables_to_data_frame(tbls) ==
    [n \in DOMAIN tbls |->
        [SCHEMA |-> tbls[n].schema, NAME |-> tbls[n].name,
         FULL_NAME |-> full_name(tbls[n]), USED |-> tbls[n].used,
         CREATED |-> tbls[n].created, RENAMED |-> tbls[n].renamed,
         POPULATED |-> tbls[n].populated, SQL |-> tbls[n].sql,
         PARENT_TABLES |-> Str(tbls[n].name)]]

\* to_data_frame(): the rows given to pd.DataFrame, or the error raised by
\* the first record whose list of parent indexes cannot be built
to_data_frame(tvs, tbls) ==
    LET table_cash == IndexCash([n \in DOMAIN tvs |-> full_name(tbls[tvs[n].table])], Len(tvs))
    IN  IF \E n \in DOMAIN tvs : ~HasParentTables(tbls[tvs[n].table])
        THEN [raised |-> "AttributeError", rows |-> <<>>]
        ELSE IF \E n \in DOMAIN tvs :
                    \E pt \in Range(tbls[tvs[n].table].parent_tables) : ~HasKey(table_cash, pt)
        THEN [raised |-> "KeyError", rows |-> <<>>]
        ELSE [raised |-> "None",
              rows |-> [n \in DOMAIN tvs |->
                LET t == tbls[tvs[n].table]
                IN  [SCHEMA |-> t.schema, NAME |-> t.name, FULL_NAME |-> full_name(t),
                     USED |-> t.used, CREATED |-> t.created, RENAMED |-> t.renamed,
                     SQL |-> t.sql,
                     PARENT_TABLES |->
                        List([k \in DOMAIN t.parent_tables |->
                                Get(table_cash, t.parent_tables[k])]),
                     IN_DATABASE |-> tvs[n].in_database,
                     IN_TABLE_CATALOG |-> tvs[n].in_table_catalog,
                     UPDATE_COLUMN |-> tvs[n].update_column,
                     UPDATE_FREQUENCY |-> tvs[n].update_frequency,
                     MINIMUM_UPDATE_TS |-> tvs[n].minimum_update_ts,
                     NEXT_REGULAR_UPDATE_TS |-> tvs[n].next_regular_update_ts,
                     ACTUAL_UPDATE_TS |-> tvs[n].actual_update_ts,
                     CONTENT_CURRENT |-> tvs[n].content_current,
                     VALIDATION_SUCCESSFUL |-> tvs[n].validation_successful,
                     VALIDATION_ERROR |-> tvs[n].validation_error]]]

\* the rows are those of the tables, in their order, and the cell of the
\* column PARENT_TABLES of each is the list of the rows of its parents
RowsOfTables(rows, tbls) ==
    /\ Len(rows) = Len(tbls)
    /\ \A n \in DOMAIN tbls :
        /\ rows[n].FULL_NAME = full_name(tbls[n])
        /\ rows[n].PARENT_TABLES =
            List([k \in DOMAIN ParentNames(tbls[n]) |->
                    (CHOOSE m \in DOMAIN tbls :
                        full_name(tbls[m]) = ParentNames(tbls[n])[k]) - 1])

\* C24: on a validator that was built, tables_to_data_frame() and
\* to_data_frame() give one row for each Table, in the order of the tables
\* list, whose cell PARENT_TABLES is the list of the rows of the parents of the
\* table, empty for a table without parents.
C24_Projection ==
    vpc = "done" =>
        /\ RowsOfTables(tables_to_data_frame(tables), tables)
        /\ to_data_frame(table_validations, tables).raised = "None"
        /\ RowsOfTables(to_data_frame(table_validations, tables).rows, tables)

----------------------------------------------------------------------------
(* Properties of the records of a SqlValidator *)

\* C25: from the creation of the records on, through the queries and the
\* validation of the tables until the constructor has returned, there is
\* exactly one record for each Table: table_validations is as long as the
\* tables list, its record n is the record of table n, and _table_cash has one
\* entry for each table, which leads from its full_name to that record.
C25_OneRecordPerTable ==
    vpc \in {"probe", "existence", "catalog", "content", "done"} =>
        /\ Len(table_validations) = Len(tables)
        /\ \A n \in DOMAIN table_validations : table_validations[n].table = n
        /\ Len(v_table_cash) = Len(tables)
        /\ \A n \in DOMAIN tables :
            /\ HasKey(v_table_cash, full_name(tables[n]))
            /\ Get(v_table_cash, full_name(tables[n])) = n

\* the constructor has returned for a text with two tables, the second of
\* which was found in the database
C25_Witness ==
    /\ vpc = "done"
    /\ Len(tables) = 2
    /\ Len(table_validations) = 2
    /\ table_validations[2].in_database
    /\ ~table_validations[1].in_database

\* a line that is empty or holds whitespace only
IsBlankLine(line) == \A n \in DOMAIN line : IsWhitespace(line[n])

\* the lines of the text: what stands between its line breaks, and what
\* follows the last of them unless that is empty
TextLines(text) ==
    LET lines == SplitBy(text, "\n")
    IN  IF lines[Len(lines)] = <<>> THEN SubSeq(lines, 1, Len(lines) - 1) ELSE lines

\* C26: what _remove_blank_lines returns for the text, of one line or of
\* several, has no line that is empty or holds whitespace only, and its lines
\* are the other lines of the text, unchanged and in their order.
C26_BlankLinesRemoved ==
    pc = "analyzed" =>
        TextLines(_remove_blank_lines(sql)) =
            SelectSeq(TextLines(sql), LAMBDA line : ~IsBlankLine(line))

\* C27: whenever the constructor or a later call of _check_table_content()
\* has returned, every record that is marked successful has an empty
\* validation_error, and every record with a validation_error has
\* content_current false.
C27_VerdictMatchesError ==
    vpc = "done" =>
        \A n \in DOMAIN table_validations :
            /\ table_validations[n].validation_successful =>
                    table_validations[n].validation_error = NoError
            /\ table_validations[n].validation_error # NoError =>
                    ~table_validations[n].content_current

\* the fields of a record that a pass of _check_table_content never assigns
SameCatalogFields(tv1, tv2) ==
    /\ tv1.table = tv2.table
    /\ tv1.in_database = tv2.in_database
    /\ tv1.in_table_catalog = tv2.in_table_catalog
    /\ tv1.update_frequency = tv2.update_frequency
    /\ tv1.update_column = tv2.update_column
    /\ tv1.minimum_update_ts = tv2.minimum_update_ts
    /\ tv1.next_regular_update_ts = tv2.next_regular_update_ts

\* C28: the step of _check_table_content for record j leaves all the other
\* records as they are, changes no field of record j other than
\* validation_error, actual_update_ts, content_current and
\* validation_successful, and leaves the tables, with their schema, name, sql,
\* flags and parents, the tables list and the registry as they are.
C28_ValidationFrame ==
    [][(vpc = "content" /\ j <= Len(table_validations) /\ j' = j + 1) =>
        /\ Len(table_validations') = Len(table_validations)
        /\ \A n \in DOMAIN table_validations :
            IF n = j THEN SameCatalogFields(table_validations'[n], table_validations[n])
            ELSE table_validations'[n] = table_validations[n]
        /\ tables' = tables
        /\ _table_cash' = _table_cash
        /\ v_table_cash' = v_table_cash]_vars

\* in a pass that follows the constructor, the first of two records, whose
\* table was given a parent, is marked successful while the second has not yet
\* been looked at
C28_Witness ==
    /\ vpc = "content"
    /\ j = 2
    /\ patches = 2
    /\ Len(table_validations) = 2
    /\ HasParentTables(tables[1])
    /\ Len(tables[1].parent_tables) = 1
    /\ table_validations[1].validation_successful
    /\ table_validations[1].in_table_catalog
    /\ table_validations[2].validation_error = NoError
    /\ ~table_validations[2].validation_successful

\* the catalog probe has been sent and answered without an error
ProbeAnswered ==
    \E n \in DOMAIN queries : queries[n].kind = "probe" /\ queries[n].result

\* C29: when analyze() has found no table in the text, the constructor sends
\* no query but the catalog probe, table_validations stays empty, nothing is
\* raised once the probe is answered, and the verdict of the validator it
\* returns is false.
C29_NoTables ==
    (pc = "analyzed" /\ tables = <<>>) =>
        /\ \A n \in DOMAIN queries : queries[n].kind = "probe"
        /\ Len(queries) <= 1
        /\ table_validations = <<>>
        /\ ProbeAnswered => (raised = "None" /\ vpc # "raised")
        /\ vpc = "done" => validation_successful(table_validations) = FALSE

\* the constructor has returned for a text without tables
C29_Witness ==
    /\ pc = "analyzed"
    /\ tables = <<>>
    /\ vpc = "done"
    /\ ProbeAnswered
    /\ Len(queries) = 1

====
